---- MODULE Spec2Model ----
(***************************************************************************)
(* A model of unimy_clo_app.py: the ingestion of a course workbook         *)
(* (process_single_course), the direct-entry path (process_manual_data),   *)
(* the header search (find_header_row) and the upload mode's handling of   *)
(* the result.                                                             *)
(*                                                                         *)
(* Text is a sequence of one-character strings, so that lower-casing,      *)
(* stripping, substring search and number formatting are computed and not  *)
(* assumed.  A spreadsheet cell is a record [t, n, s]: t = "nan" (blank),  *)
(* "num" (integer n) or "str" (text s).  Marks arithmetic is exact: a      *)
(* number is a fraction <<numerator, denominator>> in lowest terms.        *)
(* A cell of an edited table may also be Python's None, t = "none".        *)
(***************************************************************************)
EXTENDS Integers, Sequences, FiniteSets, TLC

VARIABLES
  mode,             \* "upload" | "manual": the radio button of the sidebar
  pc,               \* position inside the running function
  xls,              \* the uploaded workbook (upload mode)
  manual,           \* the two edited tables (direct entry mode)
  course_info,      \* process_single_course: course_info
  setup_header,     \* process_single_course: setup_header
  assessments,      \* the assessments dict, in insertion order
  marks_header,     \* process_single_course: marks_header
  clean_header,     \* process_single_course: clean_header
  col_map,          \* process_single_course: col_map
  row_i,            \* number of data rows the row loop has consumed
  student_clos,     \* student_clos of the row processed last
  student_results,  \* student_results
  ret,              \* the pair the function returned
  ui                \* what the page shows for the result

vars == <<mode, pc, xls, manual, course_info, setup_header, assessments,
          marks_header, clean_header, col_map, row_i, student_clos,
          student_results, ret, ui>>

----------------------------------------------------------------------------
(* Text *)

UpperChars == <<"A","B","C","D","E","F","G","H","I","J","K","L","M",
                "N","O","P","Q","R","S","T","U","V","W","X","Y","Z">>
LowerChars == <<"a","b","c","d","e","f","g","h","i","j","k","l","m",
                "n","o","p","q","r","s","t","u","v","w","x","y","z">>
DigitChars == <<"0","1","2","3","4","5","6","7","8","9">>

\* str.lower() on one character
LowerTable ==
  [c \in {UpperChars[i] : i \in 1..26} |->
     LowerChars[CHOOSE i \in 1..26 : UpperChars[i] = c]]
LowerChar(c) == IF c \in DOMAIN LowerTable THEN LowerTable[c] ELSE c

\* str.lower()
Lower(s) == [i \in 1..Len(s) |-> LowerChar(s[i])]

\* the `in` operator on two strings
Contains(sub, s) ==
  \E i \in 0..(Len(s) - Len(sub)) : SubSeq(s, i + 1, i + Len(sub)) = sub

\* str.strip()
RECURSIVE LStrip(_)
LStrip(s) == IF s # <<>> /\ Head(s) = " " THEN LStrip(Tail(s)) ELSE s
RECURSIVE RStrip(_)
RStrip(s) ==
  IF s # <<>> /\ s[Len(s)] = " " THEN RStrip(SubSeq(s, 1, Len(s) - 1)) ELSE s
Strip(s) == RStrip(LStrip(s))

\* str() of a non-negative integer
RECURSIVE NatToStr(_)
NatToStr(n) ==
  IF n < 10 THEN <<DigitChars[n + 1]>>
  ELSE NatToStr(n \div 10) \o <<DigitChars[(n % 10) + 1]>>

\* str() of an integer
IntToStr(n) == IF n < 0 THEN <<"-">> \o NatToStr(-n) ELSE NatToStr(n)

IsDigit(c) == \E i \in 1..10 : DigitChars[i] = c
DigitVal(c) == (CHOOSE i \in 1..10 : DigitChars[i] = c) - 1

\* text that is the decimal writing of an integer
IsIntStr(s) ==
  LET b == IF s # <<>> /\ Head(s) = "-" THEN Tail(s) ELSE s
  IN  b # <<>> /\ \A i \in 1..Len(b) : IsDigit(b[i])

RECURSIVE DigitsToNat(_)
DigitsToNat(s) ==
  IF s = <<>> THEN 0
  ELSE 10 * DigitsToNat(SubSeq(s, 1, Len(s) - 1)) + DigitVal(s[Len(s)])

StrToInt(s) == IF Head(s) = "-" THEN -DigitsToNat(Tail(s)) ELSE DigitsToNat(s)

\* Series.str.cat(sep=' ')
RECURSIVE JoinSp(_)
JoinSp(ss) ==
  IF ss = <<>> THEN <<>>
  ELSE IF Len(ss) = 1 THEN ss[1]
  ELSE ss[1] \o <<" ">> \o JoinSp(Tail(ss))

----------------------------------------------------------------------------
(* Cells *)

NaN == [t |-> "nan", n |-> 0, s |-> <<>>]
\* Python's None: an empty cell of an edited table (direct entry)
Blank == [t |-> "none", n |-> 0, s |-> <<>>]
Num(k) == [t |-> "num", n |-> k, s |-> <<>>]
Txt(str) == [t |-> "str", n |-> 0, s |-> str]

\* str(value) and Series.astype(str) on one cell
CellStr(c) ==
  CASE c.t = "nan" -> <<"n","a","n">>
    [] c.t = "none" -> <<"N","o","n","e">>
    [] c.t = "num" -> IntToStr(c.n)
    [] OTHER -> c.s

----------------------------------------------------------------------------
(* Exact arithmetic *)

RECURSIVE Gcd(_, _)
Gcd(a, b) == IF b = 0 THEN a ELSE Gcd(b, a % b)
Abs(a) == IF a < 0 THEN -a ELSE a

Frac(n, d) ==
  LET g == Gcd(Abs(n), Abs(d))
      sg == IF d < 0 THEN -1 ELSE 1
  IN  <<sg * (n \div g), sg * (d \div g)>>
Zero == <<0, 1>>
FromInt(k) == <<k, 1>>
RAdd(x, y) == Frac(x[1] * y[2] + y[1] * x[2], x[2] * y[2])
RMul(x, y) == Frac(x[1] * y[1], x[2] * y[2])
RDiv(x, y) == Frac(x[1] * y[2], x[2] * y[1])
RLt(x, y) == x[1] * y[2] < y[1] * x[2]
RLe(x, y) == x[1] * y[2] <= y[1] * x[2]

----------------------------------------------------------------------------
(* Text constants of the program *)

sNan == <<"n","a","n">>
sTotal == <<"t","o","t","a","l">>
sSetup == <<"S","e","t","u","p">>
sTable1 == <<"T","a","b","l","e"," ","1">>
sMarks == <<"M","a","r","k","s">>
sCourseName == <<"C","o","u","r","s","e"," ","N","a","m","e">>
sCourseCode == <<"C","o","u","r","s","e"," ","C","o","d","e">>
sUnknown == <<"U","n","k","n","o","w","n">>
sAssessmentName == <<"A","s","s","e","s","s","m","e","n","t"," ","N","a","m","e">>
sWeightage == <<"W","e","i","g","h","t","a","g","e">>
sWeightagePct == <<"W","e","i","g","h","t","a","g","e"," ","(","%",")">>
sFullMarks == <<"F","u","l","l"," ","M","a","r","k","s">>
sCLOTag == <<"C","L","O"," ","T","a","g">>
sUnmapped == <<"U","n","m","a","p","p","e","d">>
sSTUDENT_ID == <<"S","T","U","D","E","N","T"," ","I","D">>
sSTUDENT_NAME == <<"S","T","U","D","E","N","T"," ","N","A","M","E">>

\* the number of Setup rows searched for the course name and code
InfoScanRows == 15
\* the default of row.get("Full Marks", 100)
DefaultFull == 100

----------------------------------------------------------------------------
(* find_header_row *)

\* row.astype(str).str.cat(sep=' ').lower()
RowStrLower(row) == Lower(JoinSp([i \in 1..Len(row) |-> CellStr(row[i])]))

\* all(k.lower() in row_str for k in keywords)
RowHasAll(row, keywords) ==
  \A k \in 1..Len(keywords) : Contains(Lower(keywords[k]), RowStrLower(row))

\* the loop of find_header_row from row idx (0-based) on
RECURSIVE FindFrom(_, _, _)
FindFrom(df, keywords, idx) ==
  IF idx >= Len(df) THEN -1
  ELSE IF RowHasAll(df[idx + 1], keywords) THEN idx
  ELSE FindFrom(df, keywords, idx + 1)

\* a slip: the scan keeps going and the last matching row answers
RECURSIVE FindLast(_, _, _, _)
FindLast(df, keywords, idx, found) ==
  IF idx >= Len(df) THEN found
  ELSE FindLast(df, keywords, idx + 1,
                IF RowHasAll(df[idx + 1], keywords) THEN idx ELSE found)
find_header_row_LastMatch(df, keywords) == FindLast(df, keywords, 0, -1)

find_header_row(df, keywords) == FindFrom(df, keywords, 0)

----------------------------------------------------------------------------
(* process_single_course: sheets and Setup *)

\* next((i for i in sheets if P(name)), None); 0 stands for None
RECURSIVE FirstSheet(_, _, _)
FirstSheet(sheets, keys, i) ==
  IF i > Len(sheets) THEN 0
  ELSE IF \E k \in keys : Contains(k, sheets[i].name) THEN i
  ELSE FirstSheet(sheets, keys, i + 1)

sheet_setup(x) == FirstSheet(x.sheets, {sSetup}, 1)
sheet_marks(x) == FirstSheet(x.sheets, {sTable1, sMarks}, 1)

Min(a, b) == IF a < b THEN a ELSE b

\* row.get(key, default) where the columns carry `labels`; labels are cells
\* (Setup) or text (marks).  The first column of that label answers.
Get(row, labels, key, default) ==
  IF \E i \in 1..Len(labels) : labels[i] = key
    THEN row[CHOOSE i \in 1..Len(labels) :
               labels[i] = key /\ \A j \in 1..(i - 1) : labels[j] # key]
    ELSE default

\* One of the two `if "Course ..." in row_str` blocks on row r: the new value
\* of the field, or the tag "IndexError" when the sheet has no second column.
InfoField(row, key, old) ==
  IF ~Contains(key, JoinSp([i \in 1..Len(row) |-> CellStr(row[i])])) THEN old
  ELSE IF Len(row) < 2 THEN <<"IndexError">>
  ELSE IF CellStr(row[2]) # sNan THEN CellStr(row[2]) ELSE old

\* the loop over the first rows of Setup; raised = an exception left the loop
RECURSIVE InfoFrom(_, _, _)
InfoFrom(df, r, info) ==
  IF r > Min(InfoScanRows, Len(df)) \/ info.raised THEN info
  ELSE LET nm == InfoField(df[r], sCourseName, info.name)
           cd == InfoField(df[r], sCourseCode, info.code)
       IN  IF nm = <<"IndexError">> \/ cd = <<"IndexError">>
             THEN [info EXCEPT !.raised = TRUE]
             ELSE InfoFrom(df, r + 1, [name |-> nm, code |-> cd, raised |-> FALSE])

CourseInfo(df) ==
  InfoFrom(df, 1, [name |-> sUnknown, code |-> sUnknown, raised |-> FALSE])

\* float(value) raises ValueError
FloatRaises(c) == c.t = "none" \/ (c.t = "str" /\ ~IsIntStr(Strip(c.s)))

\* float(value); the configuration tables of the model hold no blank number
Float(c) == IF c.t = "num" THEN FromInt(c.n) ELSE FromInt(StrToInt(Strip(c.s)))

\* assessments[name] = cfg: a new key goes last, a known key keeps its place
DictPut(d, cfg) ==
  IF \E i \in 1..Len(d) : d[i].name = cfg.name
    THEN [i \in 1..Len(d) |-> IF d[i].name = cfg.name THEN cfg ELSE d[i]]
    ELSE Append(d, cfg)

\* the body of the loop over the Setup rows below the header
SetupRow(d, row, labels) ==
  LET name == Strip(CellStr(Get(row, labels, Txt(sAssessmentName), Txt(<<>>))))
      w == Get(row, labels, Txt(sWeightagePct), Num(0))
      f == Get(row, labels, Txt(sFullMarks), Num(DefaultFull))
      c == Get(row, labels, Txt(sCLOTag), Txt(sUnmapped))
  IN  IF name = <<>> \/ Lower(name) = sNan THEN d
      ELSE IF FloatRaises(w) \/ FloatRaises(f) THEN d
      ELSE DictPut(d, [name |-> name, weight |-> Float(w), full |-> Float(f),
                       clo |-> Strip(CellStr(c))])

RECURSIVE SetupRows(_, _, _, _)
SetupRows(d, df, r, labels) ==
  IF r > Len(df) THEN d
  ELSE SetupRows(SetupRow(d, df[r], labels), df, r + 1, labels)

\* the assessments parsed from Setup, given setup_header
ParseAssessments(df, hdr) ==
  IF hdr = -1 THEN <<>> ELSE SetupRows(<<>>, df, hdr + 2, df[hdr + 1])

----------------------------------------------------------------------------
(* process_single_course: the marks header and the column map *)

\* the loop "Fix Duplicate Headers": seen maps a label to its repeat count
RECURSIVE CleanFrom(_, _, _, _)
CleanFrom(raw, i, seen, out) ==
  IF i > Len(raw) THEN out
  ELSE LET h == raw[i]
       IN  IF h \in DOMAIN seen
             THEN CleanFrom(raw, i + 1, [seen EXCEPT ![h] = @ + 1],
                            Append(out, h \o <<"_">> \o IntToStr(seen[h] + 1)))
             ELSE CleanFrom(raw, i + 1,
                            [k \in DOMAIN seen \cup {h} |->
                               IF k = h THEN 0 ELSE seen[k]],
                            Append(out, h))

EmptyMap == [k \in {} |-> 0]

\* a slip: the suffix is the count before the increment
RECURSIVE CleanFrom_StaleCount(_, _, _, _)
CleanFrom_StaleCount(raw, i, seen, out) ==
  IF i > Len(raw) THEN out
  ELSE LET h == raw[i]
       IN  IF h \in DOMAIN seen
             THEN CleanFrom_StaleCount(raw, i + 1, [seen EXCEPT ![h] = @ + 1],
                                       Append(out, h \o <<"_">> \o IntToStr(seen[h])))
             ELSE CleanFrom_StaleCount(raw, i + 1,
                                       [k \in DOMAIN seen \cup {h} |->
                                          IF k = h THEN 0 ELSE seen[k]],
                                       Append(out, h))
CleanHeader_StaleCount(raw) == CleanFrom_StaleCount(raw, 1, EmptyMap, <<>>)


CleanHeader(raw) == CleanFrom(raw, 1, EmptyMap, <<>>)

\* df_marks.iloc[marks_header].astype(str).tolist()
RawHeader(df, hdr) == [i \in 1..Len(df[hdr + 1]) |-> CellStr(df[hdr + 1][i])]

\* the two branches of "Map Columns" for one column and one assessment name
ColMatches(asm, col) ==
  \/ Lower(asm) = Lower(col)
  \/ Contains(Lower(asm), Lower(col)) /\ ~Contains(sTotal, Lower(col))

\* the loop "Map Columns": a later matching column overwrites an earlier one
RECURSIVE MapFrom(_, _, _, _)
MapFrom(cols, names, i, m) ==
  IF i > Len(cols) THEN m
  ELSE LET hit == {a \in names : ColMatches(a, cols[i])}
       IN  MapFrom(cols, names, i + 1,
                   [a \in DOMAIN m \cup hit |->
                      IF a \in hit THEN cols[i] ELSE m[a]])

\* a slip: the first matching column is kept
RECURSIVE MapFrom_FirstWins(_, _, _, _)
MapFrom_FirstWins(cols, names, i, m) ==
  IF i > Len(cols) THEN m
  ELSE LET hit == {a \in names : ColMatches(a, cols[i])}
       IN  MapFrom_FirstWins(cols, names, i + 1,
                   [a \in DOMAIN m \cup hit |->
                      IF a \in DOMAIN m THEN m[a] ELSE cols[i]])

AsmNames(d) == {d[i].name : i \in 1..Len(d)}

ColMap_FirstWins(cols, d) ==
  MapFrom_FirstWins(cols, {d[i].name : i \in 1..Len(d)}, 1, EmptyMap)

ColMap(cols, d) == MapFrom(cols, AsmNames(d), 1, EmptyMap)

----------------------------------------------------------------------------
(* process_single_course: one data row *)

None == <<"None">>

\* col_map.get(asm_name)
ColOf(m, asm) == IF asm \in DOMAIN m THEN m[asm] ELSE None

\* `if col_name:` : a column was found and its label is not the empty text
Resolved(m, asm) == ColOf(m, asm) # None /\ ColOf(m, asm) # <<>>

\* pd.to_numeric(value, errors='coerce') is NaN
IsNaNMark(c) == c.t = "nan" \/ (c.t = "str" /\ ~IsIntStr(c.s))

\* raw_score after `if pd.isna(raw_score): raw_score = 0`
RawScore(c) ==
  IF IsNaNMark(c) THEN Zero
  ELSE IF c.t = "num" THEN FromInt(c.n) ELSE FromInt(StrToInt(c.s))

\* row[col_name] is one cell: the label names one column only
OneColumn(cols, col) == Cardinality({i \in 1..Len(cols) : cols[i] = col}) = 1

\* a slip: the raw mark is not divided by the full marks
Contrib_NoFull(raw, cfg) == RMul(raw, cfg.weight)

\* contrib = (raw_score / config['full']) * config['weight']
Contrib(raw, cfg) == RMul(RDiv(raw, cfg.full), cfg.weight)

\* the statements that fill student_clos[clo]
AddToBucket(clos, clo, contrib, weight) ==
  LET old == IF clo \in DOMAIN clos THEN clos[clo]
             ELSE [earned |-> Zero, weight |-> Zero]
  IN  [k \in DOMAIN clos \cup {clo} |->
         IF k = clo THEN [earned |-> RAdd(old.earned, contrib),
                          weight |-> RAdd(old.weight, weight)]
         ELSE clos[k]]

\* a slip: a missing or non-numeric mark skips the assessment
AsmStep_SkipsNaN(clos, cfg, row, cols, m) ==
  IF ~Resolved(m, cfg.name) THEN clos
  ELSE IF ~OneColumn(cols, m[cfg.name]) \/ cfg.full = Zero THEN clos
  ELSE IF IsNaNMark(Get(row, cols, m[cfg.name], NaN)) THEN clos
  ELSE AddToBucket(clos, cfg.clo,
                   Contrib(RawScore(Get(row, cols, m[cfg.name], NaN)), cfg),
                   cfg.weight)

\* the body of `for asm_name, config in assessments.items()`; the bare except
\* drops the assessment when the division or the cell lookup raises
AsmStep(clos, cfg, row, cols, m) ==
  IF ~Resolved(m, cfg.name) THEN clos
  ELSE IF ~OneColumn(cols, m[cfg.name]) \/ cfg.full = Zero THEN clos
  ELSE AddToBucket(clos, cfg.clo,
                   Contrib(RawScore(Get(row, cols, m[cfg.name], NaN)), cfg),
                   cfg.weight)

RECURSIVE AsmLoop(_, _, _, _, _, _)
AsmLoop(clos, d, i, row, cols, m) ==
  IF i > Len(d) THEN clos
  ELSE AsmLoop(AsmStep(clos, d[i], row, cols, m), d, i + 1, row, cols, m)

EmptyClos == [k \in {} |-> [earned |-> Zero, weight |-> Zero]]

StudentClos(d, row, cols, m) == AsmLoop(EmptyClos, d, 1, row, cols, m)

\* the CLO tags that "Finalize Student Scores" writes to the record
Kept(clos) == {k \in DOMAIN clos : RLt(Zero, clos[k].weight)}

\* a slip: the ratio is left unscaled
Perc_Unscaled(vals) == RDiv(vals.earned, vals.weight)

\* perc = (vals['earned'] / vals['weight']) * 100
Perc(vals) == RMul(RDiv(vals.earned, vals.weight), FromInt(100))

RECURSIVE SumEarned(_, _)
SumEarned(clos, ks) ==
  IF ks = {} THEN Zero
  ELSE LET k == CHOOSE x \in ks : TRUE
       IN  RAdd(clos[k].earned, SumEarned(clos, ks \ {k}))

\* a slip: the total is the mean of the CLO percentages
TotalEarned_MeanOfPercents(clos) ==
  IF Kept(clos) = {} THEN Zero
  ELSE RDiv(SumEarned([k \in Kept(clos) |->
                         [earned |-> RMul(RDiv(clos[k].earned, clos[k].weight),
                                          FromInt(100)),
                          weight |-> clos[k].weight]], Kept(clos)),
            FromInt(Cardinality(Kept(clos))))

\* total_earned after the loop over student_clos
TotalEarned(clos) == SumEarned(clos, Kept(clos))

\* s_id = str(row.get("STUDENT ID", "")).strip()
StudentId(row, cols) == Strip(CellStr(Get(row, cols, sSTUDENT_ID, Txt(<<>>))))

\* `if len(s_id) < 2 or s_id.lower() == "nan": continue`
SkipsRow(s_id) == Len(s_id) < 2 \/ Lower(s_id) = sNan

\* res, as appended to student_results
Result(s_id, name, clos) ==
  [id |-> s_id, name |-> name,
   clos |-> [k \in Kept(clos) |-> Perc(clos[k])],
   Total |-> TotalEarned(clos)]

----------------------------------------------------------------------------
(* The uploaded workbook, as the row loop and the return statements see it *)

SetupGrid == xls.sheets[sheet_setup(xls)].grid
MarksGrid == xls.sheets[sheet_marks(xls)].grid

\* df_marks after `df_marks.iloc[marks_header+1:].reset_index(drop=True)`
DataRows == SubSeq(MarksGrid, marks_header + 2, Len(MarksGrid))

NoInfo == [name |-> sUnknown, code |-> sUnknown]
NoRet == [none |-> TRUE, df |-> <<>>, msg |-> "", info |-> NoInfo]
Failure(msg) == [none |-> TRUE, df |-> <<>>, msg |-> msg, info |-> NoInfo]
Success(df, info) == [none |-> FALSE, df |-> df, msg |-> "", info |-> info]

MsgSheets == "Missing 'Setup' or 'Table 1' sheets."
MsgAssessments == "No assessments found in Setup sheet."
MsgHeader == "Could not find Student ID header in Table 1."
MsgRead == "str(e): read_excel"
MsgIndex == "str(e): single positional indexer is out-of-bounds"

kwSetup == <<sAssessmentName, sWeightage>>
kwMarks == <<sSTUDENT_ID, sSTUDENT_NAME>>

----------------------------------------------------------------------------
(* process_single_course *)

\* pd.read_excel raises; `except Exception as e: return None, str(e)`
ReadRaises ==
  /\ mode = "upload" /\ pc = "start"
  /\ ~xls.readable
  /\ ret' = Failure(MsgRead)
  /\ pc' = "returned"
  /\ UNCHANGED <<mode, xls, manual, course_info, setup_header, assessments,
                 marks_header, clean_header, col_map, row_i, student_clos,
                 student_results, ui>>

\* `if not (sheet_setup and sheet_marks): return None, "Missing ..."`
MissingSheets ==
  /\ mode = "upload" /\ pc = "start"
  /\ xls.readable
  /\ sheet_setup(xls) = 0 \/ sheet_marks(xls) = 0
  /\ ret' = Failure(MsgSheets)
  /\ pc' = "returned"
  /\ UNCHANGED <<mode, xls, manual, course_info, setup_header, assessments,
                 marks_header, clean_header, col_map, row_i, student_clos,
                 student_results, ui>>

SheetsFound ==
  /\ mode = "upload" /\ pc = "start"
  /\ xls.readable
  /\ sheet_setup(xls) # 0 /\ sheet_marks(xls) # 0
  /\ pc' = "setup"
  /\ UNCHANGED <<mode, xls, manual, course_info, setup_header, assessments,
                 marks_header, clean_header, col_map, row_i, student_clos,
                 student_results, ret, ui>>

\* "Extract Course Info" raises IndexError on a Setup sheet of one column
InfoRaises ==
  /\ pc = "setup"
  /\ CourseInfo(SetupGrid).raised
  /\ ret' = Failure(MsgIndex)
  /\ pc' = "returned"
  /\ UNCHANGED <<mode, xls, manual, course_info, setup_header, assessments,
                 marks_header, clean_header, col_map, row_i, student_clos,
                 student_results, ui>>

\* "1. PARSE SETUP", ending in `if not assessments: return None, ...`
NoAssessments ==
  /\ pc = "setup"
  /\ ~CourseInfo(SetupGrid).raised
  /\ LET info == CourseInfo(SetupGrid)
         hdr == find_header_row(SetupGrid, kwSetup)
     IN  /\ ParseAssessments(SetupGrid, hdr) = <<>>
         /\ course_info' = [name |-> info.name, code |-> info.code]
         /\ setup_header' = hdr
  /\ assessments' = <<>>
  /\ ret' = Failure(MsgAssessments)
  /\ pc' = "returned"
  /\ UNCHANGED <<mode, xls, manual, marks_header, clean_header, col_map,
                 row_i, student_clos, student_results, ui>>

\* "1. PARSE SETUP" with at least one assessment
SetupParsed ==
  /\ pc = "setup"
  /\ ~CourseInfo(SetupGrid).raised
  /\ LET info == CourseInfo(SetupGrid)
         hdr == find_header_row(SetupGrid, kwSetup)
     IN  /\ ParseAssessments(SetupGrid, hdr) # <<>>
         /\ course_info' = [name |-> info.name, code |-> info.code]
         /\ setup_header' = hdr
         /\ assessments' = ParseAssessments(SetupGrid, hdr)
  /\ pc' = "marks"
  /\ UNCHANGED <<mode, xls, manual, marks_header, clean_header, col_map,
                 row_i, student_clos, student_results, ret, ui>>

\* a slip: a sheet without the header row yields an empty result
HeaderNotFound_EmptyResult ==
  /\ pc = "marks"
  /\ find_header_row(MarksGrid, kwMarks) = -1
  /\ marks_header' = -1
  /\ ret' = Success(<<>>, course_info)
  /\ pc' = "returned"
  /\ UNCHANGED <<mode, xls, manual, course_info, setup_header, assessments,
                 clean_header, col_map, row_i, student_clos, student_results,
                 ui>>

\* `if marks_header == -1: return None, "Could not find ..."`
HeaderNotFound ==
  /\ pc = "marks"
  /\ find_header_row(MarksGrid, kwMarks) = -1
  /\ marks_header' = -1
  /\ ret' = Failure(MsgHeader)
  /\ pc' = "returned"
  /\ UNCHANGED <<mode, xls, manual, course_info, setup_header, assessments,
                 clean_header, col_map, row_i, student_clos, student_results,
                 ui>>

\* the header is found: "Fix Duplicate Headers" and "Map Columns"
HeaderFound ==
  /\ pc = "marks"
  /\ LET hdr == find_header_row(MarksGrid, kwMarks)
     IN  /\ hdr # -1
         /\ marks_header' = hdr
         /\ clean_header' = CleanHeader(RawHeader(MarksGrid, hdr))
         /\ col_map' = ColMap(CleanHeader(RawHeader(MarksGrid, hdr)), assessments)
  /\ row_i' = 0
  /\ student_results' = <<>>
  /\ pc' = "rows"
  /\ UNCHANGED <<mode, xls, manual, course_info, setup_header, assessments,
                 student_clos, ret, ui>>

\* a data row whose identifier fails the test: `continue`
SkipRow ==
  /\ pc = "rows"
  /\ row_i < Len(DataRows)
  /\ SkipsRow(StudentId(DataRows[row_i + 1], clean_header))
  /\ row_i' = row_i + 1
  /\ UNCHANGED <<mode, pc, xls, manual, course_info, setup_header, assessments,
                 marks_header, clean_header, col_map, student_clos,
                 student_results, ret, ui>>

\* a data row that yields a record
EmitRow ==
  /\ pc = "rows"
  /\ row_i < Len(DataRows)
  /\ LET row == DataRows[row_i + 1]
         s_id == StudentId(row, clean_header)
         clos == StudentClos(assessments, row, clean_header, col_map)
     IN  /\ ~SkipsRow(s_id)
         /\ student_clos' = clos
         /\ student_results' =
              Append(student_results,
                     Result(s_id, Get(row, clean_header, sSTUDENT_NAME, Txt(<<>>)),
                            clos))
  /\ row_i' = row_i + 1
  /\ UNCHANGED <<mode, pc, xls, manual, course_info, setup_header, assessments,
                 marks_header, clean_header, col_map, ret, ui>>

\* `return df_results, course_info`
ReturnResults ==
  /\ pc = "rows"
  /\ row_i = Len(DataRows)
  /\ ret' = Success(student_results, course_info)
  /\ pc' = "returned"
  /\ UNCHANGED <<mode, xls, manual, course_info, setup_header, assessments,
                 marks_header, clean_header, col_map, row_i, student_clos,
                 student_results, ui>>

----------------------------------------------------------------------------
(* The page: what is shown for the returned pair *)

\* `if df_res is not None and not df_res.empty:`
ShowResults ==
  /\ pc = "returned"
  /\ ~ret.none /\ ret.df # <<>>
  /\ ui' = "results"
  /\ pc' = "shown"
  /\ UNCHANGED <<mode, xls, manual, course_info, setup_header, assessments,
                 marks_header, clean_header, col_map, row_i, student_clos,
                 student_results, ret>>

\* upload: `elif df_res is None: st.error(f"Error: {info}")`
ShowError ==
  /\ pc = "returned" /\ mode = "upload"
  /\ ret.none
  /\ ui' = "error"
  /\ pc' = "shown"
  /\ UNCHANGED <<mode, xls, manual, course_info, setup_header, assessments,
                 marks_header, clean_header, col_map, row_i, student_clos,
                 student_results, ret>>

\* upload: `else: st.warning("No student data found in Table 1.")`
ShowNoStudentData ==
  /\ pc = "returned" /\ mode = "upload"
  /\ ~ret.none /\ ret.df = <<>>
  /\ ui' = "no student data"
  /\ pc' = "shown"
  /\ UNCHANGED <<mode, xls, manual, course_info, setup_header, assessments,
                 marks_header, clean_header, col_map, row_i, student_clos,
                 student_results, ret>>

\* The records process_single_course returns for a readable workbook that
\* passes the three early returns: the row loop over the data rows, as one
\* function of the workbook.
RECURSIVE RowLoop(_, _, _, _, _)
RowLoop(rows, n, d, cols, m) ==
  IF n = 0 THEN <<>>
  ELSE LET row == rows[n]
           s_id == StudentId(row, cols)
       IN  RowLoop(rows, n - 1, d, cols, m)
           \o (IF SkipsRow(s_id) THEN <<>>
               ELSE <<Result(s_id, Get(row, cols, sSTUDENT_NAME, Txt(<<>>)),
                             StudentClos(d, row, cols, m))>>)

UploadRecords(x) ==
  LET su == x.sheets[sheet_setup(x)].grid
      mk == x.sheets[sheet_marks(x)].grid
      d == ParseAssessments(su, find_header_row(su, kwSetup))
      hdr == find_header_row(mk, kwMarks)
      cols == CleanHeader(RawHeader(mk, hdr))
      rows == SubSeq(mk, hdr + 2, Len(mk))
  IN  RowLoop(rows, Len(rows), d, cols, ColMap(cols, d))

----------------------------------------------------------------------------
(* process_manual_data *)

sStudentId == <<"S","t","u","d","e","n","t"," ","I","D">>
sStudentName == <<"S","t","u","d","e","n","t"," ","N","a","m","e">>

MsgFloat == "str(e): float()"

\* the truth value of a cell, as `if val` takes it
Truthy(c) ==
  ~(c.t = "none" \/ (c.t = "str" /\ c.s = <<>>) \/ (c.t = "num" /\ c.n = 0))

\* "1. Parse Assessments Config": no try around float(), so raised leaves
\* the function through `except Exception as e`
RECURSIVE ManualAsmFrom(_, _, _)
ManualAsmFrom(rows, i, acc) ==
  IF i > Len(rows) \/ acc.raised THEN acc
  ELSE LET row == rows[i]
           name == Strip(CellStr(row[1]))
       IN  IF name = <<>> THEN ManualAsmFrom(rows, i + 1, acc)
           ELSE IF FloatRaises(row[2]) \/ FloatRaises(row[3])
             THEN [acc EXCEPT !.raised = TRUE]
           ELSE ManualAsmFrom(rows, i + 1,
                  [acc EXCEPT !.d = DictPut(@, [name |-> name,
                                                weight |-> Float(row[2]),
                                                full |-> Float(row[3]),
                                                clo |-> Strip(CellStr(row[4]))])])

ManualAssessments(rows) == ManualAsmFrom(rows, 1, [d |-> <<>>, raised |-> FALSE])

\* the body of `for asm_name, config in assessments.items()` (direct entry)
ManualAsmStep(clos, cfg, row, cols) ==
  LET val == Get(row, cols, cfg.name, Num(0))
  IN  IF Truthy(val) /\ FloatRaises(val) THEN clos
      ELSE IF cfg.full = Zero THEN clos
      ELSE AddToBucket(clos, cfg.clo,
                       Contrib(IF Truthy(val) THEN Float(val) ELSE Zero, cfg),
                       cfg.weight)

RECURSIVE ManualAsmLoop(_, _, _, _, _)
ManualAsmLoop(clos, d, i, row, cols) ==
  IF i > Len(d) THEN clos
  ELSE ManualAsmLoop(ManualAsmStep(clos, d[i], row, cols), d, i + 1, row, cols)

ManualClos(d, row, cols) == ManualAsmLoop(EmptyClos, d, 1, row, cols)

\* s_id = str(row['Student ID']).strip()
ManualId(row, cols) == Strip(CellStr(Get(row, cols, sStudentId, Blank)))

ManualParseRaises ==
  /\ mode = "manual" /\ pc = "start"
  /\ ManualAssessments(manual.asm).raised
  /\ ret' = Failure(MsgFloat)
  /\ pc' = "returned"
  /\ UNCHANGED <<mode, xls, manual, course_info, setup_header, assessments,
                 marks_header, clean_header, col_map, row_i, student_clos,
                 student_results, ui>>

ManualParsed ==
  /\ mode = "manual" /\ pc = "start"
  /\ ~ManualAssessments(manual.asm).raised
  /\ assessments' = ManualAssessments(manual.asm).d
  /\ row_i' = 0
  /\ student_results' = <<>>
  /\ pc' = "manual rows"
  /\ UNCHANGED <<mode, xls, manual, course_info, setup_header, marks_header,
                 clean_header, col_map, student_clos, ret, ui>>

\* `if not s_id: continue`
ManualSkipRow ==
  /\ pc = "manual rows"
  /\ row_i < Len(manual.marks)
  /\ ManualId(manual.marks[row_i + 1], manual.cols) = <<>>
  /\ row_i' = row_i + 1
  /\ UNCHANGED <<mode, pc, xls, manual, course_info, setup_header, assessments,
                 marks_header, clean_header, col_map, student_clos,
                 student_results, ret, ui>>

ManualEmitRow ==
  /\ pc = "manual rows"
  /\ row_i < Len(manual.marks)
  /\ LET row == manual.marks[row_i + 1]
         s_id == ManualId(row, manual.cols)
         clos == ManualClos(assessments, row, manual.cols)
     IN  /\ s_id # <<>>
         /\ student_clos' = clos
         /\ student_results' =
              Append(student_results,
                     Result(s_id, Get(row, manual.cols, sStudentName, Blank), clos))
  /\ row_i' = row_i + 1
  /\ UNCHANGED <<mode, pc, xls, manual, course_info, setup_header, assessments,
                 marks_header, clean_header, col_map, ret, ui>>

\* `return pd.DataFrame(student_results), {"name": ..., "code": ...}`
ManualReturn ==
  /\ pc = "manual rows"
  /\ row_i = Len(manual.marks)
  /\ ret' = Success(student_results,
                    [name |-> manual.course_name, code |-> manual.course_code])
  /\ pc' = "returned"
  /\ UNCHANGED <<mode, xls, manual, course_info, setup_header, assessments,
                 marks_header, clean_header, col_map, row_i, student_clos,
                 student_results, ui>>

\* direct entry: `else: st.error("No student data or invalid data format.")`
ManualShowError ==
  /\ pc = "returned" /\ mode = "manual"
  /\ ret.none \/ ret.df = <<>>
  /\ ui' = "no student data or invalid data format"
  /\ pc' = "shown"
  /\ UNCHANGED <<mode, xls, manual, course_info, setup_header, assessments,
                 marks_header, clean_header, col_map, row_i, student_clos,
                 student_results, ret>>

----------------------------------------------------------------------------
(* The inputs of the model.  Configuration numbers follow the data model:  *)
(* weights within 0..100, full marks above 0, no blank number.  Marks are  *)
(* blank, text, digits as text, or integers, below 0 and above the full    *)
(* marks included.  No raw header label already ends in "_<count>".        *)

\* the longest list of assessment columns of a marks header
MaxCols == 3
\* the largest number of rows below (and, for the header search, in) a sheet
MaxRows == 2

sQuiz == <<"Q","u","i","z">>
sQUIZ == <<"Q","U","I","Z">>
sQuiz2 == <<"Q","u","i","z"," ","2">>
sQuizTotal == <<"Q","u","i","z"," ","T","o","t","a","l">>
sTest == <<"T","e","s","t">>
sLab == <<"L","a","b">>
sTotalCol == <<"T","o","t","a","l">>
sCLO1 == <<"C","L","O","1">>
sCLO2 == <<"C","L","O","2">>
sCLO3 == <<"C","L","O","3">>
sAbsent == <<"a","b","s","e","n","t">>
s45 == <<"4","5">>
sS1 == <<"S","1">>
sS2pad == <<" ","S","2"," ">>
s7 == <<"7">>
sNaNid == <<"N","a","N">>
sAnn == <<"A","n","n">>
sDesign == <<"D","e","s","i","g","n">>
sDM1 == <<"D","M","1">>
sSheet1 == <<"S","h","e","e","t","1">>
sUNIMY == <<"U","N","I","M","Y">>
sForty == <<"f","o","r","t","y">>
sStudentIdLc == <<"S","t","u","d","e","n","t"," ","I","d">>
sStudent == <<"s","t","u","d","e","n","t">>
sIdStudentName == <<"i","d"," ","s","t","u","d","e","n","t"," ","n","a","m","e">>

SeqsUpTo(S, lo, hi) == UNION {[1..n -> S] : n \in lo..hi}

\* --- Setup sheets
InfoRows == << <<Txt(sCourseName), Txt(sDesign), NaN, NaN>>,
               <<Txt(sCourseCode), Txt(sDM1), NaN, NaN>> >>
SetupHead == <<Txt(sAssessmentName), Txt(sWeightagePct), Txt(sFullMarks), Txt(sCLOTag)>>
SetupHeadShort == <<Txt(sAssessmentName), Txt(sWeightage), Txt(sFullMarks), Txt(sCLOTag)>>
AsmRow(name, w, f, clo) == <<Txt(name), Num(w), Num(f), Txt(clo)>>
StdSetup(rows) == InfoRows \o <<SetupHead>> \o rows
TwoAsm == <<AsmRow(sQuiz, 40, 50, sCLO1), AsmRow(sTest, 60, 100, sCLO1)>>

\* --- Marks sheets
MarksHead(idLabel, cols) == <<Txt(idLabel), Txt(sSTUDENT_NAME)>> \o cols
MarkRow(id, marks) == <<id, Txt(sAnn)>> \o marks
TitleRow(n) == [i \in 1..n |-> IF i = 1 THEN Txt(sUNIMY) ELSE IF i = 2 THEN NaN ELSE Num(2026)]

Book(readable, setup, marks) ==
  [readable |-> readable,
   sheets |-> << [name |-> sSetup, grid |-> setup],
                 [name |-> sTable1, grid |-> marks] >>]

\* Column resolution: every list of up to MaxCols labels, one data row
LabelCells == {Txt(sQuiz), Txt(sQUIZ), Txt(sQuiz2), Txt(sQuizTotal),
               Txt(sTest), Txt(sTotalCol), NaN}
ResolveBooks ==
  {Book(TRUE, StdSetup(TwoAsm),
        <<MarksHead(sSTUDENT_ID, cols),
          MarkRow(Txt(sS1), [i \in 1..Len(cols) |-> Num(10 * i)])>>) :
     cols \in SeqsUpTo(LabelCells, 1, MaxCols)}

\* Scores: two resolved assessments and one without a column, one data row
MarkCells == {NaN, Txt(sAbsent), Txt(s45), Num(25), Num(90), Num(120), Num(-5)}
ScoreBooks ==
  {Book(TRUE,
        StdSetup(<<AsmRow(sQuiz, w1, f1, sCLO1), AsmRow(sTest, w2, 100, c2),
                   AsmRow(sLab, 20, 100, c3)>>),
        <<MarksHead(sSTUDENT_ID, <<Txt(sQuiz), Txt(sTest)>>),
          MarkRow(Txt(sS1), <<m1, m2>>)>>) :
     w1 \in {0, 40}, f1 \in {50, 100}, w2 \in {0, 60}, c2 \in {sCLO1, sCLO2},
     c3 \in {sCLO2, sCLO3}, m1 \in MarkCells,
     m2 \in {Txt(sAbsent), Num(90), Num(100), Num(120), Num(-5)}}

\* Rows: up to MaxRows data rows under either spelling of the header
IdCells == {NaN, Txt(s7), Txt(sNaNid), Txt(sS1), Txt(sS2pad), Num(12)}
RowChoices ==
  {MarkRow(id, IF id.t = "str" THEN <<Num(25), Num(90)>>
               ELSE <<Txt(sAbsent), Num(45)>>) : id \in IdCells}
RowBooks ==
  {Book(TRUE, StdSetup(TwoAsm),
        top \o <<MarksHead(idl, <<Txt(sQuiz), Txt(sTest)>>)>> \o rows) :
     top \in {<<>>, <<TitleRow(4)>>}, idl \in {sSTUDENT_ID, sStudentIdLc},
     rows \in SeqsUpTo(RowChoices, 0, MaxRows)}

\* Header search: every marks sheet of up to MaxRows + 1 rows of these kinds
SearchRows == { <<Txt(sSTUDENT_ID), Txt(sSTUDENT_NAME), Txt(sQuiz)>>,
                <<Txt(sStudentIdLc), Txt(sStudentName), Txt(sQuiz)>>,
                <<Txt(sStudent), Txt(sIdStudentName), NaN>>,
                <<Txt(sSTUDENT_ID), NaN, Num(2026)>>,
                TitleRow(3),
                <<Txt(sS1), Txt(sAnn), Num(25)>> }
SearchBooks ==
  {Book(TRUE, StdSetup(<<AsmRow(sQuiz, 100, 50, sCLO1)>>), g) :
     g \in SeqsUpTo(SearchRows, 0, MaxRows + 1)}

\* Structure: unreadable files, missing sheets, Setup and marks sheets that
\* end the function early
SetupChoices ==
  { StdSetup(TwoAsm),
    InfoRows,
    <<>>,
    << <<Txt(sCourseName)>>, <<Txt(sAssessmentName)>> >>,
    <<SetupHead, <<NaN, Num(40), Num(50), Txt(sCLO1)>>,
                 <<Txt(<<" ">>), Num(40), Num(50), Txt(sCLO1)>>,
                 <<Txt(sQuiz), Txt(sForty), Num(50), Txt(sCLO1)>> >>,
    <<SetupHead, <<Txt(sQuiz), Txt(sForty), Num(50), Txt(sCLO1)>>,
                 <<Txt(sTest), Txt(s45), Num(100), NaN>>,
                 <<Txt(sTest), Num(60), Num(100), Txt(sCLO2)>> >>,
    <<SetupHeadShort, AsmRow(sQuiz, 40, 50, sCLO1)>> }
MarksChoices ==
  { <<MarksHead(sSTUDENT_ID, <<Txt(sQuiz), Txt(sTest)>>),
      MarkRow(Txt(sS1), <<Num(25), Num(90)>>)>>,
    <<MarksHead(sSTUDENT_ID, <<Txt(sQuiz), Txt(sTest)>>)>>,
    <<MarksHead(sSTUDENT_ID, <<Txt(sQuiz), Txt(sTest)>>),
      MarkRow(NaN, <<Num(25), Num(90)>>), MarkRow(Txt(<<>>), <<NaN, NaN>>)>>,
    <<TitleRow(4), MarkRow(Txt(sS1), <<Num(25), Num(90)>>)>>,
    <<>> }
SheetNames == {sSetup, sTable1, sMarks, sSheet1}
SheetLists ==
  {ns \in SeqsUpTo(SheetNames, 0, 3) :
     \A i, j \in 1..Len(ns) : i # j => ns[i] # ns[j]}
StdMarks == <<MarksHead(sSTUDENT_ID, <<Txt(sQuiz), Txt(sTest)>>),
              MarkRow(Txt(sS1), <<Num(25), Num(90)>>)>>
StructBooks ==
  {[readable |-> TRUE,
    sheets |-> [i \in 1..Len(ns) |->
                  [name |-> ns[i],
                   grid |-> IF ns[i] = sSetup THEN StdSetup(TwoAsm) ELSE StdMarks]]] :
     ns \in SheetLists}
  \cup {Book(TRUE, su, mk) : su \in SetupChoices, mk \in MarksChoices}
  \cup {Book(FALSE, StdSetup(TwoAsm), mk) : mk \in MarksChoices}

Books == ResolveBooks \cup ScoreBooks \cup RowBooks \cup SearchBooks \cup StructBooks

\* --- Direct entry: the two edited tables
ManualCells == {Blank, Txt(<<>>), Txt(sAbsent), Txt(s45), Num(0), Num(25), Num(120)}
ManualIds == {Blank, Txt(<<>>), Txt(<<" ">>), Txt(s7), Txt(sS1)}
ManualCols == <<sStudentId, sStudentName, sQuiz, sTest>>
ManualAsmTables ==
  { <<AsmRow(sQuiz, w1, 50, sCLO1), AsmRow(sTest, 60, 100, c2)>> :
      w1 \in {0, 40}, c2 \in {sCLO1, sCLO2} }
  \cup { <<AsmRow(sQuiz, 40, 50, sCLO1), <<Txt(<<>>), Blank, Blank, Blank>>,
           <<Txt(sTest), Txt(s45), Num(100), Txt(sCLO2)>>>>,
         <<AsmRow(sQuiz, 40, 50, sCLO1), <<Blank, Blank, Blank, Blank>>>>,
         <<AsmRow(sQuiz, 40, 50, sCLO1), <<Txt(sTest), Txt(sForty), Num(100), Txt(sCLO1)>>>> }
ManualRows == {<<id, Txt(sAnn), m1, m2>> :
                 id \in ManualIds, m1 \in ManualCells, m2 \in {Num(90), Txt(sAbsent)}}
Manuals ==
  {[course_name |-> sDesign, course_code |-> sDM1, asm |-> a,
    cols |-> ManualCols, marks |-> rows] :
     a \in ManualAsmTables, rows \in SeqsUpTo(ManualRows, 0, 1)}

NoBook == [readable |-> FALSE, sheets |-> <<>>]
NoManual == [course_name |-> <<>>, course_code |-> <<>>, asm |-> <<>>,
             cols |-> <<>>, marks |-> <<>>]

----------------------------------------------------------------------------

Init ==
  /\ \/ mode = "upload" /\ xls \in Books /\ manual = NoManual
     \/ mode = "manual" /\ xls = NoBook /\ manual \in Manuals
  /\ pc = "start"
  /\ course_info = NoInfo
  /\ setup_header = -1
  /\ assessments = <<>>
  /\ marks_header = -1
  /\ clean_header = <<>>
  /\ col_map = EmptyMap
  /\ row_i = 0
  /\ student_clos = EmptyClos
  /\ student_results = <<>>
  /\ ret = NoRet
  /\ ui = "none"

Next ==
  \/ ReadRaises \/ MissingSheets \/ SheetsFound
  \/ InfoRaises \/ NoAssessments \/ SetupParsed
  \/ HeaderNotFound \/ HeaderFound
  \/ SkipRow \/ EmitRow \/ ReturnResults
  \/ ManualParseRaises \/ ManualParsed
  \/ ManualSkipRow \/ ManualEmitRow \/ ManualReturn
  \/ ShowResults \/ ShowError \/ ShowNoStudentData \/ ManualShowError

Spec == Init /\ [][Next]_vars

----------------------------------------------------------------------------
(* What the claims speak of, stated from the inputs *)

RECURSIVE SeqSum(_)
SeqSum(q) == IF q = <<>> THEN Zero ELSE RAdd(Head(q), SeqSum(Tail(q)))

\* the row loop of process_single_course has just consumed a data row
AtRow == mode = "upload" /\ pc = "rows" /\ row_i > 0
CurRow == DataRows[row_i]
\* ... and appended a record for it
JustEmitted ==
  AtRow /\ ~SkipsRow(StudentId(CurRow, clean_header)) /\ student_results # <<>>
LastRec == student_results[Len(student_results)]

\* the assessments with a resolved column
HasColumn(i) == assessments[i].name \in DOMAIN col_map
\* the mark cell of assessment i in the current row
MarkOf(i) ==
  CurRow[CHOOSE j \in 1..Len(clean_header) :
           clean_header[j] = col_map[assessments[i].name]]
\* a mark cell that is missing or not a number
NonNumeric(c) == c.t = "nan" \/ (c.t = "str" /\ ~IsIntStr(c.s))
\* the raw mark: the number in the cell, 0 for a missing or non-numeric cell
RawOf(c) == IF NonNumeric(c) THEN 0 ELSE IF c.t = "num" THEN c.n ELSE StrToInt(c.s)
\* (raw / full) * weight
EarnedOf(i) ==
  RMul(RDiv(FromInt(RawOf(MarkOf(i))), assessments[i].full), assessments[i].weight)
Carries(i, tag) == HasColumn(i) /\ assessments[i].clo = tag
\* W and the sum of earned for one CLO tag
WeightFor(tag) ==
  SeqSum([i \in 1..Len(assessments) |->
            IF Carries(i, tag) THEN assessments[i].weight ELSE Zero])
EarnedFor(tag) ==
  SeqSum([i \in 1..Len(assessments) |->
            IF Carries(i, tag) THEN EarnedOf(i) ELSE Zero])
AllTags == {assessments[i].clo : i \in 1..Len(assessments)}

(* C1: every record process_single_course emits holds, for each CLO tag
   whose resolved assessments have weights summing to W > 0, the value
   100 * (sum of (raw/full)*weight) / W; a tag with W = 0, or carried by no
   resolved assessment, is absent from the record (never reported as 0). *)
C1_CloFormula ==
  JustEmitted =>
    /\ \A tag \in AllTags :
         IF RLt(Zero, WeightFor(tag))
           THEN /\ tag \in DOMAIN LastRec.clos
                /\ LastRec.clos[tag] =
                     RDiv(RMul(FromInt(100), EarnedFor(tag)), WeightFor(tag))
           ELSE tag \notin DOMAIN LastRec.clos
    /\ DOMAIN LastRec.clos \subseteq AllTags

\* a record with one CLO present, one absent because its weights sum to 0
\* and one absent because its only assessment has no column
C1_Witness ==
  /\ JustEmitted
  /\ \E tag \in AllTags :
       RLt(Zero, WeightFor(tag)) /\ LastRec.clos[tag] # Zero
  /\ \E tag \in AllTags :
       /\ \E i \in 1..Len(assessments) : Carries(i, tag)
       /\ WeightFor(tag) = Zero /\ tag \notin DOMAIN LastRec.clos
  /\ \E tag \in AllTags :
       /\ \A i \in 1..Len(assessments) : ~Carries(i, tag)
       /\ tag \notin DOMAIN LastRec.clos

\* the number of rows among the first n data rows that pass the identifier test
RECURSIVE KeptRows(_)
KeptRows(n) ==
  IF n = 0 THEN 0
  ELSE KeptRows(n - 1)
       + (IF SkipsRow(StudentId(DataRows[n], clean_header)) THEN 0 ELSE 1)

(* C2: a missing or non-numeric mark cell counts as raw mark 0 and is never
   a skip: its assessment still adds its whole weight, and 0 earned, to its
   CLO bucket, the other assessments of the row are still processed, and
   the row's record is still emitted.  With A1 (weight 40, full 50) =
   "absent" and A2 (weight 60, full 100) = 90, both CLO1: CLO1 = 54 and
   Total = 54. *)
C2_NonNumericIsZero ==
  (AtRow /\ ~SkipsRow(StudentId(CurRow, clean_header))) =>
    /\ Len(student_results) = KeptRows(row_i)
    /\ LastRec.id = StudentId(CurRow, clean_header)
    /\ \A i \in 1..Len(assessments) :
         HasColumn(i) =>
           /\ assessments[i].clo \in DOMAIN student_clos
           /\ student_clos[assessments[i].clo].weight =
                WeightFor(assessments[i].clo)
           /\ student_clos[assessments[i].clo].earned =
                SeqSum([j \in 1..Len(assessments) |->
                          IF Carries(j, assessments[i].clo)
                               /\ ~NonNumeric(MarkOf(j))
                            THEN EarnedOf(j) ELSE Zero])
    /\ ( /\ Len(assessments) >= 2
         /\ assessments[1] = [name |-> sQuiz, weight |-> FromInt(40),
                              full |-> FromInt(50), clo |-> sCLO1]
         /\ assessments[2] = [name |-> sTest, weight |-> FromInt(60),
                              full |-> FromInt(100), clo |-> sCLO1]
         /\ \A i \in 3..Len(assessments) : ~HasColumn(i)
         /\ HasColumn(1) /\ HasColumn(2)
         /\ MarkOf(1) = Txt(sAbsent) /\ MarkOf(2) = Num(90) )
       => (LastRec.clos = (sCLO1 :> FromInt(54)) /\ LastRec.Total = FromInt(54))

\* the scenario of the claim, and a row whose two marks are both unusable
C2_Witness ==
  /\ JustEmitted
  /\ Len(assessments) >= 2
  /\ HasColumn(1) /\ HasColumn(2)
  /\ assessments[1].weight = FromInt(40) /\ assessments[2].weight = FromInt(60)
  /\ assessments[1].clo = assessments[2].clo
  /\ MarkOf(1) = Txt(sAbsent) /\ MarkOf(2) = Num(90)
  /\ LastRec.clos[sCLO1] = FromInt(54)

\* the assessments list with the CLO tags replaced by g
Regrouped(g) ==
  [i \in 1..Len(assessments) |-> [assessments[i] EXCEPT !.clo = g[i]]]

\* the mean of the CLO percentages of a record
MeanOfClos(rec) ==
  RDiv(SeqSum(LET RECURSIVE AsSeq(_)
                  AsSeq(ks) == IF ks = {} THEN <<>>
                               ELSE LET k == CHOOSE x \in ks : TRUE
                                    IN  <<rec.clos[k]>> \o AsSeq(ks \ {k})
              IN  AsSeq(DOMAIN rec.clos)),
       FromInt(Cardinality(DOMAIN rec.clos)))

(* C3: the Total of every emitted record is the sum of (raw/full)*weight
   over the assessments processed for the row, and regrouping the same
   assessments under any other CLO tags leaves Total as it is. *)
C3_TotalIsSumOfEarned ==
  JustEmitted =>
    /\ LastRec.Total =
         SeqSum([i \in 1..Len(assessments) |->
                   IF HasColumn(i) THEN EarnedOf(i) ELSE Zero])
    /\ \A g \in [1..Len(assessments) -> {sCLO1, sCLO2}] :
         TotalEarned(StudentClos(Regrouped(g), CurRow, clean_header, col_map))
           = LastRec.Total

\* the scenario A1 = 25/50, A2 = 90/100 under one CLO gives 74, and a record
\* under two CLOs whose Total differs from the mean of its CLO percentages
C3_Witness ==
  /\ JustEmitted
  /\ Cardinality(DOMAIN LastRec.clos) = 2
  /\ LastRec.Total # MeanOfClos(LastRec)
  /\ Len(assessments) >= 2 /\ HasColumn(1) /\ HasColumn(2)
  /\ MarkOf(1) = Num(25) /\ MarkOf(2) = Num(90)
  /\ assessments[1].full = FromInt(50)
  /\ LastRec.Total = FromInt(74)

----------------------------------------------------------------------------
(* Column resolution and header repair *)

\* "Fix Duplicate Headers" and "Map Columns" have run
Mapped == mode = "upload" /\ pc = "rows"
\* the positions, in scan order, of the columns equal to the name (any case)
ExactCols(a) ==
  {j \in 1..Len(clean_header) : Lower(clean_header[j]) = Lower(a)}
\* those that hold the name as a substring and do not hold "total" (any case)
SubstringCols(a) ==
  {j \in 1..Len(clean_header) :
     /\ Contains(Lower(a), Lower(clean_header[j]))
     /\ ~Contains(sTotal, Lower(clean_header[j]))}
SetMax(S) == CHOOSE x \in S : \A y \in S : y <= x

(* C4: a column equal to the assessment name (case-insensitively) wins and
   is final: the name resolves to such a column whatever other columns,
   before or after it, hold the name as a substring. *)
C4_ExactMatchIsFinal ==
  Mapped =>
    \A a \in AsmNames(assessments) :
      ExactCols(a) # {} =>
        a \in DOMAIN col_map /\ Lower(col_map[a]) = Lower(a)

(* C5: with no column equal to the name, the name resolves to the last
   column in scan order that holds it as a substring and does not hold
   "total"; a column holding "total" is never chosen by substring matching;
   with no such column the name stays unresolved. *)
C5_LastSubstringWins ==
  Mapped =>
    \A a \in AsmNames(assessments) :
      /\ ExactCols(a) = {} =>
           IF SubstringCols(a) = {} THEN a \notin DOMAIN col_map
           ELSE /\ a \in DOMAIN col_map
                /\ col_map[a] = clean_header[SetMax(SubstringCols(a))]
      /\ (a \in DOMAIN col_map /\ Lower(col_map[a]) # Lower(a)) =>
           ~Contains(sTotal, Lower(col_map[a]))

\* two substring candidates, the later one chosen, and a later "total" column
\* passed over; and a name left unresolved beside it
C5_Witness ==
  /\ Mapped
  /\ ExactCols(sQuiz) = {} /\ Cardinality(SubstringCols(sQuiz)) = 2
  /\ col_map[sQuiz] = clean_header[SetMax(SubstringCols(sQuiz))]
  /\ \E j \in 1..Len(clean_header) :
       /\ j > SetMax(SubstringCols(sQuiz))
       /\ Contains(Lower(sQuiz), Lower(clean_header[j]))
       /\ Contains(sTotal, Lower(clean_header[j]))
  /\ sTest \in AsmNames(assessments) /\ sTest \notin DOMAIN col_map

\* the labels of the header row as read, before the repair
RawLabels == RawHeader(MarksGrid, marks_header)
\* how many earlier columns carry the label of column i
Repeats(i) == Cardinality({j \in 1..(i - 1) : RawLabels[j] = RawLabels[i]})

(* C6: the repaired header has the length and order of the header row; the
   first occurrence of a label h is unchanged and its k-th repeat is "h_k":
   ["Quiz", "Quiz", "Total"] becomes ["Quiz", "Quiz_1", "Total"]. *)
C6_DuplicateHeaders ==
  Mapped =>
    /\ Len(clean_header) = Len(RawLabels)
    /\ \A i \in 1..Len(RawLabels) :
         clean_header[i] =
           IF Repeats(i) = 0 THEN RawLabels[i]
           ELSE RawLabels[i] \o <<"_">> \o IntToStr(Repeats(i))
    /\ (Len(RawLabels) = 5 /\ SubSeq(RawLabels, 3, 5) = <<sQuiz, sQuiz, sTotalCol>>)
         => SubSeq(clean_header, 3, 5) =
              <<sQuiz, <<"Q","u","i","z","_","1">>, sTotalCol>>

\* the example of the claim, in the columns after the two student columns
C6_Witness ==
  /\ Mapped
  /\ RawLabels = <<sSTUDENT_ID, sSTUDENT_NAME, sQuiz, sQuiz, sTotalCol>>
  /\ clean_header = <<sSTUDENT_ID, sSTUDENT_NAME, sQuiz,
                      <<"Q","u","i","z","_","1">>, sTotalCol>>

\* a label repeated twice: the second repeat carries the count 2
C6_SecondRepeat ==
  Mapped /\ \E i \in 1..Len(RawLabels) :
              Repeats(i) = 2 /\ clean_header[i] = RawLabels[i] \o <<"_", "2">>

----------------------------------------------------------------------------
(* Rows, the header search and the outcome of a run *)

sStudentIdLower == <<"s","t","u","d","e","n","t"," ","i","d">>

\* the columns of the header row labelled "STUDENT ID" in any case
IdColumns == {j \in 1..Len(RawLabels) : Lower(RawLabels[j]) = sStudentIdLower}
\* the identifier of a data row: its cell under that column, as stripped text
IdentifierOf(row) == Strip(CellStr(row[CHOOSE j \in IdColumns : TRUE]))
ValidIdentifier(id) == Len(id) >= 2 /\ Lower(id) # sNan
\* the identifiers, in row order, of the first n data rows that must yield a record
RECURSIVE ExpectedIds(_)
ExpectedIds(n) ==
  IF n = 0 THEN <<>>
  ELSE ExpectedIds(n - 1)
       \o (IF ValidIdentifier(IdentifierOf(DataRows[n]))
             THEN <<IdentifierOf(DataRows[n])>> ELSE <<>>)

(* C7: once the header row (holding "STUDENT ID" and "STUDENT NAME" in any
   case) is located, process_single_course emits exactly one record for
   each data row below it whose identifier, stringified and stripped, has
   at least 2 characters and is not "nan" in any case, in row order, and
   none for any other row. *)
C7_OneRecordPerValidRow ==
  (Mapped /\ Cardinality(IdColumns) = 1) =>
    [j \in 1..Len(student_results) |-> student_results[j].id]
      = ExpectedIds(row_i)

\* the rows of grid df (0-based) whose joined, lower-cased text holds every
\* lower-cased keyword
MatchingRows(df, keywords) ==
  {r \in 0..(Len(df) - 1) :
     \A k \in 1..Len(keywords) :
       Contains(Lower(keywords[k]),
                Lower(JoinSp([i \in 1..Len(df[r + 1]) |-> CellStr(df[r + 1][i])])))}
SetMin(S) == CHOOSE x \in S : \A y \in S : x <= y
FirstMatchingRow(df, keywords) ==
  IF MatchingRows(df, keywords) = {} THEN -1
  ELSE SetMin(MatchingRows(df, keywords))

SetupSearched == mode = "upload" /\ (pc \in {"marks", "rows"} \/ ret.msg = MsgAssessments)
MarksSearched == mode = "upload" /\ (pc = "rows" \/ ret.msg = MsgHeader)

(* C8: find_header_row returns the smallest index of a row whose cells,
   stringified (numbers and blanks too), joined and lower-cased, hold every
   lower-cased keyword, and -1 exactly when no row does. *)
C8_FirstMatchingRow ==
  /\ SetupSearched => setup_header = FirstMatchingRow(SetupGrid, kwSetup)
  /\ MarksSearched => marks_header = FirstMatchingRow(MarksGrid, kwMarks)

\* the header is found below a row of text, a blank and a number, in a row
\* whose cells hold the keywords only once joined, before a later match
C8_Witness ==
  /\ MarksSearched
  /\ marks_header = 1
  /\ MarksGrid[1] = TitleRow(3)
  /\ MarksGrid[2] = <<Txt(sStudent), Txt(sIdStudentName), NaN>>
  /\ Cardinality(MatchingRows(MarksGrid, kwMarks)) = 2

\* no row matches although one row holds one of the two keywords
C8_NotFound ==
  /\ MarksSearched /\ marks_header = -1
  /\ \E r \in 1..Len(MarksGrid) :
       MarksGrid[r] = <<Txt(sSTUDENT_ID), NaN, Num(2026)>>

\* the three conditions of an early return, from the workbook
NoSetupOrMarksSheet ==
  \/ ~\E i \in 1..Len(xls.sheets) : Contains(sSetup, xls.sheets[i].name)
  \/ ~\E i \in 1..Len(xls.sheets) :
        Contains(sTable1, xls.sheets[i].name) \/ Contains(sMarks, xls.sheets[i].name)
NoAssessmentParsed ==
  ParseAssessments(SetupGrid, find_header_row(SetupGrid, kwSetup)) = <<>>
NoStudentHeader == find_header_row(MarksGrid, kwMarks) = -1
Returned == mode = "upload" /\ pc \in {"returned", "shown"}

(* C9: process_single_course returns a pair in every case, an exception
   raised on the way included, and the outcome is all or nothing: (None, message) with no records when a Setup
   or Table 1/Marks sheet is missing, when no assessment is parsed from
   Setup, or when the student header row is not found, tested in that
   order, and (records, course_info) otherwise; a file whose data rows all
   have invalid identifiers succeeds with zero records and is shown as
   "no student data", not as an error. *)
C9_AllOrNothing ==
  Returned =>
       /\ ret.none => ret.df = <<>>
       /\ ~xls.readable => ret.none
       /\ xls.readable =>
            IF NoSetupOrMarksSheet THEN ret.none /\ ret.msg = MsgSheets
            ELSE IF NoAssessmentParsed
              THEN ret.none /\ ret.msg \in {MsgAssessments, MsgIndex}
            ELSE IF NoStudentHeader THEN ret.none /\ ret.msg = MsgHeader
            ELSE /\ ~ret.none
                 /\ ret.df = student_results
                 /\ Len(ret.df) = KeptRows(Len(DataRows))
                 /\ ret.info = course_info
       /\ pc = "shown" =>
            ui = IF ret.none THEN "error"
                 ELSE IF ret.df = <<>> THEN "no student data" ELSE "results"

\* a sheet with data rows, none with a valid identifier: success, no record
C9_Witness ==
  /\ Returned /\ pc = "shown"
  /\ ~ret.none /\ ret.df = <<>>
  /\ Len(DataRows) = 2
  /\ ui = "no student data"

\* the last data row consumed by either path has yielded the last record
ManualAtRow == mode = "manual" /\ pc = "manual rows" /\ row_i > 0
ManualCurRow == manual.marks[row_i]
ManualJustEmitted ==
  ManualAtRow /\ ManualId(ManualCurRow, manual.cols) # <<>> /\ student_results # <<>>
ManualMarkOf(i) ==
  ManualCurRow[CHOOSE j \in 1..Len(manual.cols) : manual.cols[j] = assessments[i].name]
\* a mark cell that holds a number from 0 to the full marks, or no number
WithinFull(c, full) ==
  \/ c.t \in {"nan", "none"}
  \/ c.t = "str" /\ ~IsIntStr(c.s)
  \/ 0 <= RawOf(c) /\ RLe(FromInt(RawOf(c)), full)
ScoresWithin(rec) ==
  \A tag \in DOMAIN rec.clos :
    RLe(Zero, rec.clos[tag]) /\ RLe(rec.clos[tag], FromInt(100))

(* C10 as claimed: every CLO score of every record of either path lies in
   [0, 100], whatever raw marks the input holds. *)
C10_ScoresInRange ==
  \A j \in 1..Len(student_results) : ScoresWithin(student_results[j])

(* C10, amended: a record's CLO scores lie in [0, 100] when each raw mark
   of its row lies between 0 and the full marks of its assessment (a
   missing or non-numeric cell holding no mark). *)
C10_ScoresInRangeForMarksInRange ==
  /\ (JustEmitted /\ \A i \in 1..Len(assessments) :
                       HasColumn(i) => WithinFull(MarkOf(i), assessments[i].full))
       => ScoresWithin(LastRec)
  /\ (ManualJustEmitted /\ \A i \in 1..Len(assessments) :
                       WithinFull(ManualMarkOf(i), assessments[i].full))
       => ScoresWithin(LastRec)

\* marks within range with both ends met: one CLO at 100, one at 0
C10_Witness ==
  /\ JustEmitted
  /\ \A i \in 1..Len(assessments) :
       HasColumn(i) => WithinFull(MarkOf(i), assessments[i].full)
  /\ \E tag \in DOMAIN LastRec.clos : LastRec.clos[tag] = FromInt(100)
  /\ \E tag \in DOMAIN LastRec.clos : LastRec.clos[tag] = Zero

\* the same on the direct-entry path, with a score strictly inside
C10_ManualWitness ==
  /\ ManualJustEmitted
  /\ \A i \in 1..Len(assessments) : WithinFull(ManualMarkOf(i), assessments[i].full)
  /\ \E tag \in DOMAIN LastRec.clos :
       RLt(Zero, LastRec.clos[tag]) /\ RLt(LastRec.clos[tag], FromInt(100))


----------------------------------------------------------------------------
(* The two ingestion paths on the same data *)

\* a cell of an edited table as the same cell of a worksheet: an empty cell
\* (None or empty text) is a blank worksheet cell
SheetCell(c) == IF c.t = "none" \/ c = Txt(<<>>) THEN NaN ELSE c
SheetRow(row) == [j \in 1..Len(row) |-> SheetCell(row[j])]

\* the workbook that holds the tables of a direct entry: the assessment
\* table under the Setup header, the marks under a header row that labels
\* the identifier and name columns as the workbook path expects them and
\* each assessment column by its name
WorkbookOf(m) ==
  Book(TRUE,
       StdSetup([i \in 1..Len(m.asm) |-> SheetRow(m.asm[i])]),
       <<MarksHead(sSTUDENT_ID, [j \in 1..(Len(m.cols) - 2) |-> Txt(m.cols[j + 2])])>>
         \o [i \in 1..Len(m.marks) |-> SheetRow(m.marks[i])])

\* both paths parse the same, non-empty assessment configuration, and the
\* workbook path resolves every assessment to the column of its own name
SameConfiguration(m) ==
  LET x == WorkbookOf(m)
      su == x.sheets[sheet_setup(x)].grid
      mk == x.sheets[sheet_marks(x)].grid
      d == ParseAssessments(su, find_header_row(su, kwSetup))
      cols == CleanHeader(RawHeader(mk, find_header_row(mk, kwMarks)))
  IN  /\ ~ManualAssessments(m.asm).raised
      /\ ManualAssessments(m.asm).d = d
      /\ d # <<>>
      /\ \A i \in 1..Len(d) :
            /\ d[i].name \in DOMAIN ColMap(cols, d)
            /\ ColMap(cols, d)[d[i].name] = d[i].name

ManualReturned == mode = "manual" /\ pc \in {"returned", "shown"}

\* the row loop of process_single_course, taken step by step, returns what
\* UploadRecords computes from the workbook
UploadRecordsAgree ==
  (mode = "upload" /\ pc \in {"returned", "shown"} /\ ~ret.none)
    => ret.df = UploadRecords(xls)

(* C11: given the same assessment configuration and the same student rows
   (blank and non-numeric marks, short and "nan" identifiers included),
   process_manual_data returns the same sequence of records as
   process_single_course returns for the workbook holding those tables,
   every assessment resolved to its own column: same rows kept, same CLO
   keys, same CLO percentages, same Total. *)
C11_PathsAgree ==
  (ManualReturned /\ SameConfiguration(manual))
    => ~ret.none /\ ret.df = UploadRecords(WorkbookOf(manual))

\* a row on which the two paths read the same thing: the identifier has at
\* least 2 characters and is not blank, every mark is a number or empty
PlainRow(row) ==
  /\ row[1].t = "str" /\ Len(Strip(row[1].s)) >= 2 /\ Lower(Strip(row[1].s)) # sNan
  /\ \A j \in 3..Len(row) :
        row[j].t \in {"num", "none"} \/ (row[j].t = "str" /\ IsIntStr(Strip(row[j].s)))
        \/ row[j] = Txt(<<>>)

\* on such rows the two paths do return the same records
C11_PathsAgreeOnPlainRows ==
  (ManualReturned /\ SameConfiguration(manual)
     /\ \A i \in 1..Len(manual.marks) : PlainRow(manual.marks[i]))
    => ~ret.none /\ ret.df = UploadRecords(WorkbookOf(manual))

C11_PlainRowsWitness ==
  /\ ManualReturned /\ SameConfiguration(manual)
  /\ Len(manual.marks) = 1 /\ PlainRow(manual.marks[1])
  /\ Len(ret.df) = 1
  /\ manual.marks[1][3] = Blank

====
